---- MODULE Spec2Model ----
(***************************************************************************)
(* A model of chat.py: the Streamlit script that runs main() once per      *)
(* rerun, keeps the conversation in st.session_state and makes blocking    *)
(* calls to the hosted completion service.                                 *)
(*                                                                         *)
(* A text (Python str) is a sequence of tokens; the token " " is a         *)
(* whitespace character, every other token is a run of non-blank           *)
(* characters.  The empty text <<>> is the empty string.                   *)
(* An optional value is a record: NoneVal is Python's None, Str(t) a str.  *)
(***************************************************************************)
EXTENDS Integers, Sequences, FiniteSets, TLC

VARIABLES
    session_keys,     \* the keys present in st.session_state
    conversation_id,  \* st.session_state.conversation_id
    current_phase,    \* st.session_state.current_phase
    responses,        \* st.session_state.responses: dict int -> str
    explored_depths,  \* st.session_state.explored_depths: list of parsed analyses
    essay_draft,      \* st.session_state.essay_draft: None or str
    current_question, \* st.session_state.current_question
    user_response,    \* the text_area value read by the running script
    button,           \* st.button's value in the running script
    pc,               \* position of the script run
    reply,            \* state of the blocking service call made at pc
    uuid_calls,       \* number of uuid.uuid4() calls made so far
    request,          \* the messages of the service call made at pc
    calls             \* number of service calls the running script has made

vars == <<session_keys, conversation_id, current_phase, responses,
          explored_depths, essay_draft, current_question, user_response,
          button, pc, reply, uuid_calls, request, calls>>

(***************************************************************************)
(* Bounds of the model.                                                    *)
(***************************************************************************)
\* a session is followed until it holds this many responses
MaxResponses == 6
\* at most this many irregular inputs reach a session: whitespace-only
\* reflections submitted, incomplete objects returned by the service
MaxIrregular == 1

(***************************************************************************)
(* Values.                                                                 *)
(***************************************************************************)
NoneVal == [tag |-> "None", val |-> <<>>]
\* a str whose empty value is turned into None (`value or None`)
StrOrNone(t) == IF t = <<>> THEN [tag |-> "None", val |-> <<>>] ELSE [tag |-> "str", val |-> t]

Str(t) == [tag |-> "str", val |-> t]

\* str.strip(): drop leading and trailing whitespace
RECURSIVE lstrip(_)
lstrip(t) == IF t # <<>> /\ Head(t) = " " THEN lstrip(Tail(t)) ELSE t

RECURSIVE rstrip(_)
rstrip(t) == IF t # <<>> /\ t[Len(t)] = " " THEN rstrip(SubSeq(t, 1, Len(t) - 1)) ELSE t

strip(t) == rstrip(lstrip(t))

\* truth value of a str in `if user_response:`
Truthy(t) == Len(t) > 0

(***************************************************************************)
(* The literals of the program.                                            *)
(***************************************************************************)
DepthThreshold == 5

FallbackQuestion == <<"What small moment in your life has quietly shaped who you are today?">>

FallbackEssay == <<"A personal reflection on growth, potential, and the transformative power of continuous learning.">>

AnalysisKeys == {"emotional_themes", "unspoken_motivations", "growth_indicators", "narrative_threads"}

FallbackAnalysis ==
    [emotional_themes     |-> <<"Personal Growth", "Resilience">>,
     unspoken_motivations |-> <<"Self-improvement">>,
     growth_indicators    |-> <<"Reflection">>,
     narrative_threads    |-> <<"Personal Journey">>]

(***************************************************************************)
(* The hosted completion service.  A call either raises or returns a       *)
(* message whose content is None or a str.  What it answers is not under   *)
(* the program's control: every call may end in any of these outcomes.     *)
(***************************************************************************)
NoCall == [kind |-> "none", content |-> NoneVal]
Pending == [kind |-> "pending", content |-> NoneVal]
Raised == [kind |-> "raise", content |-> NoneVal]
Returned(c) == [kind |-> "return", content |-> c]

\* completions of a free-text call
TextContents == { <<>>, <<" ", " ">>, <<" ", "text", " ">> }

TextOutcomes == {Raised, Returned(NoneVal)} \cup { Returned(Str(t)) : t \in TextContents }

\* completions of a json_object call: an object is the token "{", the keys
\* it holds (each with the value []), and the token "}"
CompleteObject == <<"{", "emotional_themes", "unspoken_motivations", "growth_indicators", "narrative_threads", "}">>
PartialObject == <<"{", "emotional_themes", "}">>
TruncatedObject == <<"{", "emotional_themes", "unspoken_motivations">>

JsonContents == { CompleteObject, PartialObject, TruncatedObject }

JsonOutcomes == {Raised, Returned(NoneVal)} \cup { Returned(Str(t)) : t \in JsonContents }

\* the texts a user may have typed in the text_area
UserTexts == { <<>>, <<" ", " ", " ">>, <<"reflection">> }

\* what the widgets hold when a rerun starts: <<button, text>>.  A rerun that
\* no click triggered is one the edited text triggered.
WidgetStates == { <<FALSE, <<"reflection">>>> } \cup { <<TRUE, t>> : t \in UserTexts }

(***************************************************************************)
(* json.loads on the payloads above: a value, or a JSONDecodeError.        *)
(***************************************************************************)
IsJsonObject(t) ==
    /\ Len(t) >= 2
    /\ t[1] = "{"
    /\ t[Len(t)] = "}"
    /\ \A i \in 2..(Len(t) - 1) : t[i] \notin {"{", "}"}

json_loads(t) == [k \in { t[i] : i \in 2..(Len(t) - 1) } |-> <<>>]

\* json.dumps of a parsed analysis: the keys in insertion order, each
\* followed by the items of its list
AnalysisKeyOrder == <<"emotional_themes", "unspoken_motivations", "growth_indicators", "narrative_threads">>

RECURSIVE dumps_items(_, _)
dumps_items(a, keys) ==
    IF keys = <<>> THEN <<>>
    ELSE (IF Head(keys) \in DOMAIN a THEN <<Head(keys)>> \o a[Head(keys)] ELSE <<>>)
         \o dumps_items(a, Tail(keys))

json_dumps(a) == <<"{">> \o dumps_items(a, AnalysisKeyOrder) \o <<"}">>

(***************************************************************************)
(* The messages sent to the service.  A prompt is a text whose tokens are  *)
(* runs of literal characters and replacement fields such as "{insights}". *)
(***************************************************************************)
\* the system prompt of the question generator: no replacement field
QuestionPrompt == <<"You are a compassionate career counselor and narrative guide. [...] Make the questions small that lead to deep understanding of the response.">>

QuestionUserMessage == <<"Craft a question that feels like a warm, curious invitation to share.">>

\* the system prompt of the analyzer, sent as it is
AnalysisPrompt == <<"Compassionate Narrative Analysis: [...] Areas of Potential Deeper Reflection">>

AnalysisUserPrefix == <<"Please analyze the following reflection and respond in JSON format:">>

EssayPrompt == <<"Narrative Intimacy: [...] Candidate's Intimate Insights:", "{insights}", "Create an essay that: [...] Leaves a lasting emotional impression">>

EssayUserMessage == <<"Weave a narrative that reveals the candidate's true potential.">>

\* str.format(field=value): every replacement field `field` becomes value;
\* a keyword argument no field names is ignored
RECURSIVE format(_, _, _)
format(template, field, value) ==
    IF template = <<>> THEN <<>>
    ELSE (IF Head(template) = field THEN value ELSE <<Head(template)>>)
         \o format(Tail(template), field, value)

\* json.dumps of the list of analyses
RECURSIVE dumps_each(_)
dumps_each(list) ==
    IF list = <<>> THEN <<>> ELSE json_dumps(Head(list)) \o dumps_each(Tail(list))

json_dumps_list(list) == <<"[">> \o dumps_each(list) \o <<"]">>

NoRequest == [system |-> <<>>, user |-> <<>>]

\* `context or "Initial gentle exploration"`
ContextOrDefault(context) ==
    IF context.tag = "str" /\ Truthy(context.val) THEN context.val ELSE <<"Initial gentle exploration">>

\* the messages of lines 61-64
QuestionRequest(context) ==
    [system |-> format(QuestionPrompt, "{context}", ContextOrDefault(context)),
     user   |-> QuestionUserMessage]

\* the messages of lines 111-114
AnalysisRequest(response) ==
    [system |-> AnalysisPrompt,
     user   |-> AnalysisUserPrefix \o response]

\* the messages of lines 163-166
EssayRequest(insights) ==
    [system |-> format(EssayPrompt, "{insights}", json_dumps_list(insights)),
     user   |-> EssayUserMessage]

\* a generator that calls the service once more when the call raised
AttemptsWithRetry(r) == IF r.kind = "raise" THEN 2 ELSE 1

\* the calls one invocation of a generator makes, given how its call ended:
\* one `create` in the try, none in the except
Attempts(r) == 1

(***************************************************************************)
(* The three generators, as functions of the outcome of their one call.    *)
(***************************************************************************)
\* response.choices[0].message.content.strip(), AttributeError on None
HasText(r) == r.kind = "return" /\ r.content.tag = "str"

\* a generator whose except branch returns no question
generate_question_without_fallback(context, r) ==
    IF HasText(r) THEN strip(r.content.val) ELSE <<>>

\* _generate_compassionate_question(context): context is None or a str
generate_compassionate_question(context, r) ==
    IF HasText(r) THEN strip(r.content.val) ELSE FallbackQuestion

\* an analyzer whose except branch returns the four keys with empty lists
analyze_with_empty_fallback(r) ==
    IF HasText(r) /\ IsJsonObject(r.content.val)
    THEN json_loads(r.content.val)
    ELSE [k \in AnalysisKeys |-> <<>>]

\* _analyze_response_depth(response)
analyze_response_depth(r) ==
    IF HasText(r) /\ IsJsonObject(r.content.val)
    THEN json_loads(r.content.val)
    ELSE FallbackAnalysis

\* _generate_intimate_essay(insights)
generate_intimate_essay(r) ==
    IF HasText(r) THEN strip(r.content.val) ELSE FallbackEssay

(***************************************************************************)
(* st.session_state                                                        *)
(***************************************************************************)
StateKeys == {"current_phase", "responses", "explored_depths", "essay_draft"}

EmptyDict == [k \in {} |-> <<>>]

\* len(st.session_state.responses)
DictLen(d) == Cardinality(DOMAIN d)

\* a store under the index of the last entry instead of the next one
DictSetAtLast(d, k, v) ==
    [x \in (DOMAIN d) \cup {IF k > 0 THEN k - 1 ELSE 0} |->
        IF x = (IF k > 0 THEN k - 1 ELSE 0) THEN v ELSE d[x]]

\* d[k] = v
DictSet(d, k, v) == [x \in (DOMAIN d) \cup {k} |-> IF x = k THEN v ELSE d[x]]

\* an append that is skipped when the analysis is the fallback
AppendDepthOnSuccess(depths, analysis) ==
    IF analysis = FallbackAnalysis THEN depths ELSE Append(depths, analysis)

\* st.session_state.explored_depths.append(response_analysis)
AppendDepth(depths, analysis) == Append(depths, analysis)

\* the branch with the comparison off by one
NextStepOffByOne(depths) == IF Len(depths) <= DepthThreshold THEN "generate_next" ELSE "synthesize"

\* the branch taken at `if len(st.session_state.explored_depths) < 5`
NextStep(depths) == IF Len(depths) < DepthThreshold THEN "generate_next" ELSE "synthesize"

\* the condition of `if user_response:` under `if st.button(...)`
Accepted(clicked, text) == clicked /\ Truthy(text)

\* a check that always asks for a new identifier
AlwaysNewConversationId(keys) == TRUE

\* `if 'conversation_id' not in st.session_state`
NewConversationId(keys) == "conversation_id" \notin keys

\* an initialization that writes the default whether the key is there or not
ResetValue(keys, key, current, default) == default

\* `if key not in st.session_state: setattr(st.session_state, key, default_value)`
InitialValue(keys, key, current, default) == IF key \notin keys THEN default ELSE current

IsBlank(t) == Truthy(t) /\ strip(t) = <<>>

IsComplete(a) == DOMAIN a = AnalysisKeys

BlankCount == Cardinality({ i \in DOMAIN responses : IsBlank(responses[i]) })

PartialCount == Cardinality({ i \in 1..Len(explored_depths) : ~IsComplete(explored_depths[i]) })

Init ==
    /\ session_keys = {}
    /\ conversation_id = 0
    /\ current_phase = "absent"
    /\ responses = EmptyDict
    /\ explored_depths = <<>>
    /\ essay_draft = NoneVal
    /\ current_question = NoneVal
    /\ user_response = <<>>
    /\ button = FALSE
    /\ pc = "idle"
    /\ reply = NoCall
    /\ uuid_calls = 0
    /\ request = NoRequest
    /\ calls = 0

\* the script run returns: its locals are gone
EndRun ==
    /\ pc' = "idle"
    /\ reply' = NoCall
    /\ user_response' = <<>>
    /\ button' = FALSE
    /\ request' = NoRequest
    /\ calls' = 0

(***************************************************************************)
(* main(): EssayTherapyCompanion() runs _initialize_conversation_state,    *)
(* then interactive_exploration starts and, in phase initial_exploration,  *)
(* calls the service for a question.                                       *)
(***************************************************************************)
Rerun ==
    /\ pc = "idle"
    /\ session_keys' = session_keys \cup {"conversation_id"} \cup StateKeys
    /\ IF NewConversationId(session_keys)
       THEN conversation_id' = uuid_calls + 1 /\ uuid_calls' = uuid_calls + 1
       ELSE UNCHANGED <<conversation_id, uuid_calls>>
    /\ current_phase' = InitialValue(session_keys, "current_phase", current_phase, "initial_exploration")
    /\ responses' = InitialValue(session_keys, "responses", responses, EmptyDict)
    /\ explored_depths' = InitialValue(session_keys, "explored_depths", explored_depths, <<>>)
    /\ essay_draft' = InitialValue(session_keys, "essay_draft", essay_draft, NoneVal)
    /\ IF current_phase' = "initial_exploration"
       THEN /\ pc' = "generate_initial"
            /\ reply' = Pending
            /\ request' = QuestionRequest(NoneVal)
            /\ calls' = 1
       ELSE /\ pc' = "collect"
            /\ reply' = NoCall
            /\ request' = NoRequest
            /\ calls' = 0
    /\ UNCHANGED <<current_question, user_response, button>>

\* the blocking call of the running script ends
ServiceResponds ==
    /\ reply = Pending
    /\ \/ /\ pc \in {"generate_initial", "generate_next", "synthesize"}
          /\ reply' \in TextOutcomes
       \/ /\ pc = "analyze"
          /\ reply' \in JsonOutcomes
          /\ HasText(reply') /\ reply'.content.val = PartialObject => BlankCount + PartialCount < MaxIrregular
    /\ UNCHANGED <<session_keys, conversation_id, current_phase, responses,
                   explored_depths, essay_draft, current_question,
                   user_response, button, pc, uuid_calls, request, calls>>

\* the widgets are read: the text the user typed and whether the rerun
\* was triggered by a click on "Continue Exploring"
ReadWidgets ==
    \E w \in WidgetStates :
        /\ Accepted(w[1], w[2]) => DictLen(responses) < MaxResponses
        /\ w[1] /\ IsBlank(w[2]) => BlankCount + PartialCount < MaxIrregular
        /\ button' = w[1]
        /\ user_response' = w[2]

\* line 186 returns, the question is written, the widgets are read
InitialQuestion ==
    /\ pc = "generate_initial"
    /\ reply \notin {NoCall, Pending}
    /\ current_question' = Str(generate_compassionate_question(NoneVal, reply))
    /\ session_keys' = session_keys \cup {"current_question"}
    /\ ReadWidgets
    /\ pc' = "collect"
    /\ reply' = NoCall
    /\ request' = NoRequest
    /\ calls' = calls + (Attempts(reply) - 1)
    /\ UNCHANGED <<conversation_id, current_phase, responses, explored_depths,
                   essay_draft, uuid_calls>>

\* lines 193-200: the button and the text decide whether a response is stored
ContinueExploring ==
    /\ pc = "collect"
    /\ IF Accepted(button, user_response)
       THEN /\ responses' = DictSet(responses, DictLen(responses), user_response)
            /\ pc' = "analyze"
            /\ reply' = Pending
            /\ request' = AnalysisRequest(user_response)
            /\ calls' = calls + 1
            /\ UNCHANGED <<user_response, button>>
       ELSE /\ EndRun
            /\ UNCHANGED responses
    /\ UNCHANGED <<session_keys, conversation_id, current_phase, explored_depths,
                   essay_draft, current_question, uuid_calls>>

\* lines 200-215: the analysis is appended and the next call is chosen
Analyzed ==
    /\ pc = "analyze"
    /\ reply \notin {NoCall, Pending}
    /\ LET response_analysis == analyze_response_depth(reply)
       IN  /\ explored_depths' = AppendDepth(explored_depths, response_analysis)
           /\ request' = IF NextStep(explored_depths') = "generate_next"
                         THEN QuestionRequest(Str(json_dumps(response_analysis)))
                         ELSE EssayRequest(explored_depths')
    /\ pc' = NextStep(explored_depths')
    /\ reply' = Pending
    /\ calls' = calls + (Attempts(reply) - 1) + 1
    /\ UNCHANGED <<session_keys, conversation_id, current_phase, responses,
                   essay_draft, current_question, user_response, button, uuid_calls>>

\* lines 208-210
NextQuestion ==
    /\ pc = "generate_next"
    /\ reply \notin {NoCall, Pending}
    /\ current_question' = Str(generate_compassionate_question(
                                Str(json_dumps(explored_depths[Len(explored_depths)])), reply))
    /\ EndRun
    /\ UNCHANGED <<session_keys, conversation_id, current_phase, responses,
                   explored_depths, essay_draft, uuid_calls>>

\* lines 213-217
Synthesized ==
    /\ pc = "synthesize"
    /\ reply \notin {NoCall, Pending}
    /\ essay_draft' = Str(generate_intimate_essay(reply))
    /\ EndRun
    /\ UNCHANGED <<session_keys, conversation_id, current_phase, responses,
                   explored_depths, current_question, uuid_calls>>

Next ==
    \/ Rerun
    \/ ServiceResponds
    \/ InitialQuestion
    \/ ContinueExploring
    \/ Analyzed
    \/ NextQuestion
    \/ Synthesized

Spec == Init /\ [][Next]_vars

(***************************************************************************)
(* The claims.                                                             *)
(***************************************************************************)
EssaySet == essay_draft # NoneVal

\* the service call of the running script has ended with outcome r
CallEnded(position, r) == pc = position /\ reply = r

\* C1: once the essay is synthesized (after the 5th accepted response), a
\* further submission is a no-op: no response stored, no insight appended,
\* no new synthesis call, essay unchanged.
C1_SubmitAfterEssayIsNoOp ==
    [][EssaySet =>
          /\ responses' = responses
          /\ explored_depths' = explored_depths
          /\ essay_draft' = essay_draft
          /\ pc' # "synthesize"]_vars

\* C2: in every state the essay is set if and only if the phase is complete.
C2_EssayIffComplete == EssaySet <=> current_phase = "complete"

\* C3: a submission (button clicked) of an empty or whitespace-only text
\* changes neither responses, insights nor phase and starts no service call.
C3_BlankSubmissionIsNoOp ==
    [][pc = "collect" /\ button /\ strip(user_response) = <<>> =>
          /\ responses' = responses
          /\ explored_depths' = explored_depths
          /\ current_phase' = current_phase
          /\ reply' # Pending]_vars

\* C4: after every script run (every submitResponse), whatever the service
\* answered, there are as many stored responses as stored insight records.
C4_SameLength == pc = "idle" => DictLen(responses) = Len(explored_depths)

C4_Witness ==
    /\ pc = "idle"
    /\ DictLen(responses) = 3
    /\ Len(explored_depths) = 3
    /\ \E i \in 1..3 : explored_depths[i] = FallbackAnalysis
    /\ \E i \in 1..3 : explored_depths[i] = json_loads(CompleteObject)

\* C5: once the first question is produced the phase is exploring, it stays
\* exploring through the first 4 accepted responses and is complete from the
\* 5th on.
C5_PhaseProgresses ==
    pc = "idle" /\ current_question # NoneVal =>
        current_phase = IF Len(explored_depths) < DepthThreshold THEN "exploring" ELSE "complete"

\* C6: the essay is unset while fewer than 5 insight records are stored, and
\* the script run that stores the 5th record ends with the essay set,
\* whatever the service answered.
C6_ThresholdDecides ==
    /\ Len(explored_depths) < DepthThreshold => ~EssaySet
    /\ pc = "idle" /\ Len(explored_depths) >= DepthThreshold => EssaySet

C6_Witness ==
    /\ pc = "idle"
    /\ Len(explored_depths) = DepthThreshold
    /\ EssaySet
    /\ essay_draft = Str(FallbackEssay)
    /\ \E i \in 1..DepthThreshold : explored_depths[i] = FallbackAnalysis
    /\ \E i \in 1..DepthThreshold : explored_depths[i] = json_loads(CompleteObject)

\* C7: every stored insight record has exactly the four required fields.
C7_FourFields ==
    \A i \in 1..Len(explored_depths) : DOMAIN explored_depths[i] = AnalysisKeys

\* C8: when the analyzer's call raises, returns no text or returns text that
\* is not JSON, the record appended is exactly the fallback record and the
\* run goes on to its next call.
C8_AnalyzerFallback ==
    [][pc = "analyze" /\ reply \in {Raised, Returned(NoneVal), Returned(Str(TruncatedObject))} =>
          /\ explored_depths' = Append(explored_depths, FallbackAnalysis)
          /\ pc' # "idle"]_vars

C8_Witness ==
    /\ pc \in {"generate_next", "synthesize"}
    /\ reply = Pending
    /\ explored_depths[Len(explored_depths)] = FallbackAnalysis

\* C9: when the question generator's call raises, the question written is
\* the literal fallback question, with no context (first question) and with
\* the last analysis as context (next question), and the run goes on.
C9_QuestionFallback ==
    [][reply = Raised /\ pc \in {"generate_initial", "generate_next"} =>
          /\ current_question' = Str(FallbackQuestion)
          /\ pc' \in {"collect", "idle"}]_vars

C9_Witness ==
    /\ CallEnded("generate_next", Raised)
    /\ current_question = Str(FallbackQuestion)
    /\ Len(explored_depths) >= 2

\* C10: the current question, once set, is never the empty string.
C10_QuestionNeverEmpty == current_question # Str(<<>>)

\* C11: the essay, once set, is never the empty string, whatever the
\* synthesis call answered.
C11_EssayNeverEmpty == essay_draft # Str(<<>>)

\* C13: the keys of responses are always 0..len-1, a step stores at most
\* one response, stores it under the next index (the N-th under N-1) as the
\* text submitted, and leaves every earlier entry as it was.
C13_MonotonicIndexing ==
    [][/\ DOMAIN responses' = 0..(DictLen(responses') - 1)
       /\ DictLen(responses') <= DictLen(responses) + 1
       /\ \A k \in DOMAIN responses : k \in DOMAIN responses' /\ responses'[k] = responses[k]
       /\ responses' # responses => responses'[DictLen(responses)] = user_response]_vars

C13_Witness ==
    /\ DictLen(responses) = 3
    /\ responses[0] = <<"reflection">>
    /\ IsBlank(responses[1])
    /\ responses[2] = <<"reflection">>

\* C14: the session identifier is the value of the one uuid4() call made at
\* the first run; no later rerun or submission makes another call or
\* changes it.
C14_SessionIdStable ==
    "conversation_id" \in session_keys => conversation_id = 1 /\ uuid_calls = 1

C14_Witness ==
    /\ pc = "generate_initial"
    /\ "conversation_id" \in session_keys
    /\ DictLen(responses) = 2
    /\ Len(explored_depths) = 2

\* C19: constructing the companion again for a session that has the keys
\* leaves current_phase, responses, explored_depths and essay_draft as they
\* are; a key that is absent gets its default.
C19_ReinitializationKeepsState ==
    [][pc = "idle" =>
          /\ current_phase' = IF "current_phase" \in session_keys THEN current_phase ELSE "initial_exploration"
          /\ responses' = IF "responses" \in session_keys THEN responses ELSE EmptyDict
          /\ explored_depths' = IF "explored_depths" \in session_keys THEN explored_depths ELSE <<>>
          /\ essay_draft' = IF "essay_draft" \in session_keys THEN essay_draft ELSE NoneVal
          /\ StateKeys \subseteq session_keys']_vars

C19_Witness ==
    /\ pc = "generate_initial"
    /\ reply = Pending
    /\ DictLen(responses) = DepthThreshold
    /\ Len(explored_depths) = DepthThreshold
    /\ EssaySet

\* C15: a run that starts with a question already present makes no
\* question-generation call of its own and shows the question the previous
\* run stored: that question changes only after a response is accepted.
C15_StartIdempotent ==
    [][current_question # NoneVal /\ pc \in {"idle", "generate_initial"} =>
          /\ pc' # "generate_initial"
          /\ current_question' = current_question]_vars

\* C18: a step stores a response only in a state where current_question is
\* set, and a step never unsets a current_question that is set.
C18_QuestionBeforeResponse ==
    [][/\ DictLen(responses') > DictLen(responses) => current_question # NoneVal
       /\ current_question # NoneVal => current_question' # NoneVal]_vars

C18_Witness ==
    /\ pc = "analyze"
    /\ reply = Pending
    /\ DictLen(responses) = 2
    /\ current_question = Str(<<>>)

\* t holds the tokens of part, in a row
Contains(t, part) ==
    \E i \in 1..(Len(t) - Len(part) + 1) : SubSeq(t, i, i + Len(part) - 1) = part

\* C16: the request for the next question, made after an accepted submission
\* that leaves fewer than 5 records, holds the serialized most recent record.
C16_RequestCarriesContext ==
    pc = "generate_next" /\ reply = Pending =>
        Contains(request.system \o request.user,
                 json_dumps(explored_depths[Len(explored_depths)]))

SubmitReflection ==
    /\ InitialQuestion
    /\ button'
    /\ strip(user_response') # <<>>

FairSpec ==
    /\ Spec
    /\ WF_vars(Next)
    /\ SF_vars(SubmitReflection)

\* C12: whatever the service calls answer, a run that has started reaches
\* its end, and the session of a user who keeps submitting reflections
\* reaches a state where the essay is set.
C12_DialogueNeverStalls ==
    /\ (pc # "idle") ~> (pc = "idle")
    /\ <>EssaySet

C12_Witness ==
    /\ pc = "idle"
    /\ essay_draft = Str(FallbackEssay)
    /\ current_question = Str(FallbackQuestion)
    /\ Len(explored_depths) = DepthThreshold
    /\ \A i \in 1..DepthThreshold : explored_depths[i] = FallbackAnalysis

====
